---- MODULE Spec2Model ----
(***************************************************************************)
(* Model of qickit's unitary synthesis core:                               *)
(*   - ShannonDecomposition.apply_unitary (quantum Shannon decomposition   *)
(*     with the A.1 and A.2 optimizations),                                *)
(*   - OneQubitDecomposition.apply_unitary,                                *)
(*   - Gate.control and Gate.change_mapping.                               *)
(*                                                                         *)
(* Numerical data is abstracted.  A unitary is described by what the code  *)
(* branches on: its number of qubits, the form it is passed in, whether    *)
(* the Operator wrapper accepts it, which of its cosine-sine angles fall   *)
(* below EPSILON (cls) and which numerical kernel call, if any, raises     *)
(* (fault).  A circuit record entry keeps the gate name, its control and   *)
(* target qubits and its number of angles; src is a ghost field naming the *)
(* code place that appended the entry.                                     *)
(***************************************************************************)
EXTENDS Integers, Sequences, FiniteSets, TLC

\* ---- bounds ----
MaxN == 3
MaxCircuitQubits == 4
MaxFault == 5
MaxPrefix == 2
MaxGateQubits == 3
MaxControls == 2
MaxDeepN == 4

\* A qubit index that is not an integer (fails isinstance(.., SupportsIndex)).
NonInt == -1

VARIABLES
    circuit_log,     \* circuit.circuit_log of the caller's circuit
    num_qubits,      \* circuit.num_qubits of the caller's circuit
    unitary,         \* the unitary argument of the running call
    qubit_indices,   \* the (promoted) top-level qubit_indices of the call
    a2_qsd_blocks,   \* the list local to apply_unitary
    stack,           \* call stack of quantum_shannon_decomposition/demultiplexor
    status,          \* "idle" | "running" | "a2" | "returned" | "raised"
    error,           \* kind of the exception that ended the call
    kernel_calls,    \* numerical kernel calls made so far in this call
    qsd_blocks,      \* apply_a2_optimization: the leaf segments
    circuit_blocks,  \* apply_a2_optimization: the gap segments
    block_index,     \* apply_a2_optimization: loop counter, then phase
    callee,          \* ghost: which apply_unitary was called last
    log_at_call,     \* ghost: circuit_log when the call began
    log_at_a2,       \* ghost: circuit_log when the A.2 pass began
    foreign,         \* ghost: a leaf entry named a qubit its sub-circuit lacks
    first_call,      \* ghost: input and result of the first call (SpecRepeat)
    build,           \* how the circuit's update() treats a qubit it lacks
    gate,            \* a Gate object: [matrix, num_qubits, ordering]
    gate_hist,       \* ghost: the last two Gate operations, newest last
    gate_error       \* exception raised by the last Gate operation

circuit_vars == <<circuit_log, num_qubits>>
call_vars == <<unitary, qubit_indices, a2_qsd_blocks, stack, status, error,
               kernel_calls, callee, log_at_call>>
a2_vars == <<qsd_blocks, circuit_blocks, block_index, log_at_a2, foreign>>
gate_vars == <<gate, gate_hist, gate_error>>
vars == <<circuit_log, num_qubits, unitary, qubit_indices, a2_qsd_blocks,
          stack, status, error, kernel_calls, qsd_blocks, circuit_blocks,
          block_index, callee, log_at_call, log_at_a2, foreign, first_call,
          build, gate, gate_hist, gate_error>>

\* ---- helpers on sequences ----
Last(s) == s[Len(s)]

\* Python slice s[a:b] with 0 <= a, b (0-based, half-open).
Slice(s, a, b) == SubSeq(s, a + 1, IF b > Len(s) THEN Len(s) ELSE b)

RECURSIVE Concat(_)
Concat(ss) == IF ss = <<>> THEN <<>> ELSE Head(ss) \o Concat(Tail(ss))

RECURSIVE Pow2(_)
Pow2(k) == IF k = 0 THEN 1 ELSE 2 * Pow2(k - 1)

RECURSIVE Log2(_)
Log2(d) == IF d <= 1 THEN 0 ELSE 1 + Log2(d \div 2)

Range(s) == {s[i] : i \in 1..Len(s)}

\* ---- the circuit collaborator: gate invocations appended to the record ----
Entry(g, c, t, k, src) ==
    [gate |-> g, controls |-> c, targets |-> t, nangles |-> k, src |-> src]

RY(q, src) == Entry("RY", <<>>, <<q>>, 1, src)

RZ(q, src) == Entry("RZ", <<>>, <<q>>, 1, src)

U3(q, src) == Entry("U3", <<>>, <<q>>, 3, src)

GlobalPhase(src) == Entry("GlobalPhase", <<>>, <<>>, 1, src)

CX(c, t, src) == Entry("CX", <<c>>, <<t>>, 0, src)

CZ(c, t, src) == Entry("CZ", <<c>>, <<t>>, 0, src)

UCRZ(k, cs, t, src) == Entry("UCRZ", cs, <<t>>, k, src)

EntryQubits(e) == Range(e.controls) \cup Range(e.targets)

\* ---- inputs ----
Classes == {"identity", "sparse", "generic"}

\* Unitary arguments.  form "object" cannot be converted to an array; a raw
\* matrix with unitary = FALSE is rejected by the Operator constructor.
Unitaries ==
    {[n |-> n, cls |-> c, form |-> "ndarray", unitary |-> TRUE, fault |-> k] :
        n \in 1..MaxN, c \in Classes, k \in 0..MaxFault}
    \cup {[n |-> n, cls |-> c, form |-> "Operator", unitary |-> TRUE,
           fault |-> 0] : n \in 1..MaxN, c \in Classes}
    \cup {[n |-> n, cls |-> "generic", form |-> f, unitary |-> FALSE,
           fault |-> 0] : n \in 1..MaxN, f \in {"ndarray", "list"}}
    \cup {[n |-> n, cls |-> "generic", form |-> f, unitary |-> TRUE,
           fault |-> 0] : n \in 1..MaxN, f \in {"list", "object"}}

NoUnitary ==
    [n |-> 1, cls |-> "generic", form |-> "ndarray", unitary |-> TRUE,
     fault |-> 0]

IsInjective(s) == \A i, j \in 1..Len(s) : s[i] = s[j] => i = j

IndexLists(N) ==
    {s \in UNION {[1..k -> 0..(N - 1)] : k \in 1..MaxN} : IsInjective(s)}
    \cup {<<NonInt>>, <<0, NonInt>>}

\* qubit_indices arguments: a bare integer or a sequence.
QubitArgs(N) ==
    {[bare |-> FALSE, idx |-> s] : s \in IndexLists(N)}
    \cup {[bare |-> TRUE, idx |-> <<q>>] : q \in 0..(N - 1)}

\* ---- data-dependent outcomes of the numerical code ----
\* |angle| <= EPSILON for the i-th transformed cosine-sine angle of the frame
\* at the given recursion depth.
AngleSmall(U, depth, i) ==
    CASE U.cls = "identity" -> depth = 0
      [] U.cls = "sparse" -> i % 2 = 1
      [] OTHER -> FALSE

\* The k-th numerical kernel call of the running call raises.
KernelRaises(U, k) == U.fault = k

\* Number of CX gates of a two-qubit synthesis (at most 3; one fewer when
\* the diagonal is left to the caller).
NumCX(U, up_to_diagonal) ==
    LET full == CASE U.cls = "identity" -> 0
                  [] U.cls = "sparse" -> 2
                  [] OTHER -> 3
    IN IF up_to_diagonal /\ full > 0 THEN full - 1 ELSE full

\* ---- pure parts of the synthesis ----
RECURSIVE TwoQubitLayers(_, _, _)
TwoQubitLayers(q, k, src) ==
    IF k = 0 THEN <<>>
    ELSE <<CX(q[1], q[2], src), U3(q[1], src), U3(q[2], src)>>
         \o TwoQubitLayers(q, k - 1, src)

\* Gates appended by TwoQubitDecomposition on the qubit pair q.
TwoQubitGates(q, ncx, src) ==
    <<U3(q[1], src), U3(q[2], src)>> \o TwoQubitLayers(q, ncx, src)
    \o <<GlobalPhase(src)>>

\* Gates appended by OneQubitDecomposition.apply_unitary after validation.
OneQubitGates(basis, q, src) ==
    IF basis = "zyz"
    THEN <<RZ(q, src), RY(q, src), RZ(q, src), GlobalPhase(src)>>
    ELSE <<U3(q, src), GlobalPhase(src)>>

\* len(binary_rep) - len(binary_rep.rstrip("0")) for binary_rep of m >= 1.
RECURSIVE TrailingZeros(_)
TrailingZeros(m) == IF m % 2 = 1 THEN 0 ELSE 1 + TrailingZeros(m \div 2)

\* ControlIndex counting the controls from the other end.
ControlIndex_FromMsb(i, num_angles, control_indices) ==
    IF i # num_angles - 1
    THEN Len(control_indices) - 1 - TrailingZeros(i + 1)
    ELSE Len(control_indices) - 1

ControlIndex(i, num_angles, control_indices) ==
    IF i # num_angles - 1 THEN TrailingZeros(i + 1)
    ELSE Len(control_indices) - 1

\* UcryLoop without the EPSILON test of line 348.
RECURSIVE UcryLoop_NoEpsilon(_, _, _, _, _, _)
UcryLoop_NoEpsilon(U, depth, control_indices, target_index, num_angles, i) ==
    IF i >= num_angles THEN <<>>
    ELSE <<RY(target_index, "ucry")>>
         \o (IF i < num_angles - 1
             THEN <<CZ(control_indices[ControlIndex(i, num_angles,
                                          control_indices) + 1],
                       target_index, "ucry")>>
             ELSE <<>>)
         \o UcryLoop_NoEpsilon(U, depth, control_indices, target_index,
                               num_angles, i + 1)

\* UcryLoop with a CY entangler at line 360.
RECURSIVE UcryLoop_CY(_, _, _, _, _, _)
UcryLoop_CY(U, depth, control_indices, target_index, num_angles, i) ==
    IF i >= num_angles THEN <<>>
    ELSE (IF ~AngleSmall(U, depth, i)
          THEN <<RY(target_index, "ucry")>> ELSE <<>>)
         \o (IF i < num_angles - 1
             THEN <<Entry("CY",
                          <<control_indices[ControlIndex(i, num_angles,
                                               control_indices) + 1]>>,
                          <<target_index>>, 0, "ucry")>>
             ELSE <<>>)
         \o UcryLoop_CY(U, depth, control_indices, target_index, num_angles,
                        i + 1)

RECURSIVE UcryLoop(_, _, _, _, _, _)
UcryLoop(U, depth, control_indices, target_index, num_angles, i) ==
    IF i >= num_angles THEN <<>>
    ELSE (IF ~AngleSmall(U, depth, i)
          THEN <<RY(target_index, "ucry")>> ELSE <<>>)
         \o (IF i < num_angles - 1
             THEN <<CZ(control_indices[ControlIndex(i, num_angles,
                                          control_indices) + 1],
                       target_index, "ucry")>>
             ELSE <<>>)
         \o UcryLoop(U, depth, control_indices, target_index, num_angles,
                     i + 1)

\* get_ucry_cz taking the first qubit of the list as target at lines
\* 330-331.
get_ucry_cz_FirstTarget(U, depth, qs, num_angles) ==
    LET control_indices == Tail(qs)
        target_index == Head(qs)
    IN IF control_indices = <<>>
       THEN (IF ~AngleSmall(U, depth, 0)
             THEN <<RY(target_index, "ucry")>> ELSE <<>>)
       ELSE UcryLoop(U, depth, control_indices, target_index, num_angles, 0)

\* Gates appended by get_ucry_cz(circuit, qubit_indices, angles).
get_ucry_cz(U, depth, qs, num_angles) ==
    LET control_indices == SubSeq(qs, 1, Len(qs) - 1)
        target_index == Last(qs)
    IN IF control_indices = <<>>
       THEN (IF ~AngleSmall(U, depth, 0)
             THEN <<RY(target_index, "ucry")>> ELSE <<>>)
       ELSE UcryLoop(U, depth, control_indices, target_index, num_angles, 0)

\* ---- the call stack ----
Frame(fn, pc, qs, dim, depth) ==
    [fn |-> fn, pc |-> pc, qubit_indices |-> qs, dim |-> dim, depth |-> depth]

Top == Last(stack)

Rest == SubSeq(stack, 1, Len(stack) - 1)

\* An exception propagates out of apply_unitary: nothing catches it, the
\* circuit keeps whatever was appended so far.
Raise(kind) ==
    /\ status' = "raised"
    /\ error' = kind
    /\ stack' = <<>>

\* The running function returns to its caller.
Return ==
    /\ stack' = Rest
    /\ status' = IF Len(stack) = 1 THEN "returned" ELSE status
    /\ error' = error

SetTop(f) == stack' = Rest \o <<f>>

Call(f, g) == stack' = Rest \o <<f, g>>

CallEnded == status \in {"returned", "raised"}

\* ---- the caller ----
\* Between two calls nothing of the previous call is left but the circuit.
ForgetCall ==
    /\ status' = "idle"
    /\ error' = "none"
    /\ unitary' = NoUnitary
    /\ qubit_indices' = <<>>
    /\ stack' = <<>>
    /\ kernel_calls' = 0
    /\ callee' = "none"
    /\ log_at_call' = <<>>
    /\ qsd_blocks' = <<>>
    /\ circuit_blocks' = <<>>
    /\ block_index' = 0
    /\ log_at_a2' = <<>>
    /\ foreign' = FALSE

\* The caller builds a fresh circuit of N qubits.
NewCircuit(N) ==
    /\ CallEnded
    /\ circuit_log' = <<>>
    /\ num_qubits' = N
    /\ ForgetCall
    /\ a2_qsd_blocks' = <<>>
    /\ UNCHANGED <<first_call, build>>
    /\ UNCHANGED gate_vars

\* The caller goes on with the circuit the previous call left.
KeepCircuit ==
    /\ CallEnded
    /\ Len(circuit_log) <= MaxPrefix
    /\ ForgetCall
    /\ a2_qsd_blocks' = <<>>
    /\ UNCHANGED <<circuit_vars, first_call, build>>
    /\ UNCHANGED gate_vars

\* ---- ShannonDecomposition.apply_unitary, lines 117-135 and 436 ----
\* ShannonValidation without the isinstance test of line 129.
ShannonValidation_NoIndexCheck(U, qi) ==
    CASE U.form = "object" -> "TypeError"
      [] U.form # "Operator" /\ ~U.unitary -> "ValueError"
      [] Len(qi) # U.n -> "ValueError"
      [] OTHER -> "none"

ShannonValidation(U, qi) ==
    CASE U.form = "object" -> "TypeError"
      [] U.form # "Operator" /\ ~U.unitary -> "ValueError"
      [] \E i \in 1..Len(qi) : qi[i] = NonInt -> "TypeError"
      [] Len(qi) # U.n -> "ValueError"
      [] OTHER -> "none"

\* ApplyUnitary with the block list kept across calls instead of being
\* created at line 135.
ApplyUnitary_KeepBlocks(U, arg) ==
    /\ status = "idle"
    /\ callee' = "shannon"
    /\ log_at_call' = circuit_log
    /\ unitary' = U
    /\ qubit_indices' = arg.idx
    /\ kernel_calls' = 0
    /\ LET v == ShannonValidation(U, arg.idx)
       IN IF v # "none"
          THEN Raise(v)
          ELSE /\ stack' = <<Frame("qsd", "start", arg.idx, Pow2(U.n), 0)>>
               /\ status' = "running"
               /\ error' = "none"
    /\ qsd_blocks' = <<>>
    /\ circuit_blocks' = <<>>
    /\ block_index' = 0
    /\ log_at_a2' = <<>>
    /\ foreign' = FALSE
    /\ UNCHANGED <<circuit_vars, a2_qsd_blocks, first_call, build>>
    /\ UNCHANGED gate_vars

ApplyUnitary(U, arg) ==
    /\ status = "idle"
    /\ callee' = "shannon"
    /\ log_at_call' = circuit_log
    /\ unitary' = U
    /\ qubit_indices' = arg.idx
    /\ kernel_calls' = 0
    /\ LET v == ShannonValidation(U, arg.idx)
       IN IF v # "none"
          THEN /\ Raise(v)
               /\ UNCHANGED a2_qsd_blocks
          ELSE /\ a2_qsd_blocks' = <<>>
               /\ stack' = <<Frame("qsd", "start", arg.idx, Pow2(U.n), 0)>>
               /\ status' = "running"
               /\ error' = "none"
    /\ qsd_blocks' = <<>>
    /\ circuit_blocks' = <<>>
    /\ block_index' = 0
    /\ log_at_a2' = <<>>
    /\ foreign' = FALSE
    /\ UNCHANGED <<circuit_vars, first_call, build>>
    /\ UNCHANGED gate_vars

\* ---- quantum_shannon_decomposition ----
Running(fn, pc) ==
    /\ status = "running"
    /\ stack # <<>>
    /\ Top.fn = fn
    /\ Top.pc = pc

Untouched ==
    /\ UNCHANGED <<num_qubits, unitary, qubit_indices, callee, log_at_call,
                   first_call, build>>
    /\ UNCHANGED gate_vars

\* dim == 2: lines 181-183, with OneQubitDecomposition.apply_unitary
\* (basis "u3", the default the constructor at line 107 leaves).
QSD_OneQubit ==
    /\ Running("qsd", "start")
    /\ Top.dim = 2
    /\ IF Len(Top.qubit_indices) # 1
       THEN /\ Raise("ValueError")
            /\ UNCHANGED circuit_log
       ELSE /\ circuit_log' = circuit_log
                \o OneQubitGates("u3", Top.qubit_indices[1], "one_qubit")
            /\ Return
    /\ UNCHANGED <<a2_qsd_blocks, kernel_calls>>
    /\ UNCHANGED a2_vars
    /\ Untouched

\* QSD_TwoQubit without the depth test of line 190.
QSD_TwoQubit_AnyDepth ==
    /\ Running("qsd", "start")
    /\ Top.dim = 4
    /\ kernel_calls' = kernel_calls + 1
    /\ IF KernelRaises(unitary, kernel_calls + 1)
       THEN /\ Raise("LinAlgError")
            /\ UNCHANGED <<circuit_log, a2_qsd_blocks>>
       ELSE LET current_index == Len(circuit_log)
                gates == TwoQubitGates(Top.qubit_indices,
                                       NumCX(unitary, FALSE), "two_qubit")
            IN /\ circuit_log' = circuit_log \o gates
               /\ a2_qsd_blocks' =
                    Append(a2_qsd_blocks,
                           <<current_index, Len(circuit_log) + Len(gates)>>)
               /\ Return
    /\ UNCHANGED a2_vars
    /\ Untouched

\* dim == 4: lines 185-193.
QSD_TwoQubit ==
    /\ Running("qsd", "start")
    /\ Top.dim = 4
    /\ kernel_calls' = kernel_calls + 1
    /\ IF KernelRaises(unitary, kernel_calls + 1)
       THEN /\ Raise("LinAlgError")
            /\ UNCHANGED <<circuit_log, a2_qsd_blocks>>
       ELSE LET current_index == Len(circuit_log)
                gates == TwoQubitGates(Top.qubit_indices,
                                       NumCX(unitary, FALSE), "two_qubit")
            IN /\ circuit_log' = circuit_log \o gates
               /\ a2_qsd_blocks' =
                    IF Top.depth > 0
                    THEN Append(a2_qsd_blocks,
                                <<current_index, Len(circuit_log) + Len(gates)>>)
                    ELSE a2_qsd_blocks
               /\ Return
    /\ UNCHANGED a2_vars
    /\ Untouched

\* Lines 195-199: cosine-sine decomposition, then the left multiplexor.
QSD_CosSin ==
    /\ Running("qsd", "start")
    /\ Top.dim > 4
    /\ kernel_calls' = kernel_calls + 1
    /\ IF KernelRaises(unitary, kernel_calls + 1)
       THEN Raise("LinAlgError")
       ELSE /\ Call([Top EXCEPT !.pc = "ucry"],
                    Frame("demux", "start", Top.qubit_indices,
                          Top.dim \div 2, Top.depth))
            /\ UNCHANGED <<status, error>>
    /\ UNCHANGED <<circuit_log, a2_qsd_blocks>>
    /\ UNCHANGED a2_vars
    /\ Untouched

\* Lines 203-213: the CZ-basis UCRY, then the right multiplexor.
QSD_Ucry ==
    /\ Running("qsd", "ucry")
    /\ circuit_log' = circuit_log
          \o get_ucry_cz(unitary, Top.depth, Top.qubit_indices, Top.dim \div 2)
    /\ Call([Top EXCEPT !.pc = "end"],
            Frame("demux", "start", Top.qubit_indices, Top.dim \div 2,
                  Top.depth))
    /\ UNCHANGED <<status, error, a2_qsd_blocks, kernel_calls>>
    /\ UNCHANGED a2_vars
    /\ Untouched

\* ---- demultiplexor ----
\* Demux_Left passing recursion_depth on unchanged at line 302.
Demux_Left_SameDepth ==
    /\ Running("demux", "start")
    /\ kernel_calls' = kernel_calls + 1
    /\ IF KernelRaises(unitary, kernel_calls + 1)
       THEN Raise("LinAlgError")
       ELSE /\ Call([Top EXCEPT !.pc = "ucrz"],
                    Frame("qsd", "start",
                          SubSeq(Top.qubit_indices, 1,
                                 Len(Top.qubit_indices) - 1),
                          Top.dim, Top.depth))
            /\ UNCHANGED <<status, error>>
    /\ UNCHANGED <<circuit_log, a2_qsd_blocks>>
    /\ UNCHANGED a2_vars
    /\ Untouched

\* Lines 273-302: eigendecomposition, then the left gate W.
Demux_Left ==
    /\ Running("demux", "start")
    /\ kernel_calls' = kernel_calls + 1
    /\ IF KernelRaises(unitary, kernel_calls + 1)
       THEN Raise("LinAlgError")
       ELSE /\ Call([Top EXCEPT !.pc = "ucrz"],
                    Frame("qsd", "start",
                          SubSeq(Top.qubit_indices, 1,
                                 Len(Top.qubit_indices) - 1),
                          Top.dim, Top.depth + 1))
            /\ UNCHANGED <<status, error>>
    /\ UNCHANGED <<circuit_log, a2_qsd_blocks>>
    /\ UNCHANGED a2_vars
    /\ Untouched

\* Demux_Ucrz with the UCRZ of line 308 targeting the first qubit of the
\* list and controlled by the others.
Demux_Ucrz_FirstTarget ==
    /\ Running("demux", "ucrz")
    /\ LET demux_qubits == Top.qubit_indices
       IN /\ circuit_log' = Append(circuit_log,
                UCRZ(Top.dim, Tail(demux_qubits), Head(demux_qubits), "ucrz"))
          /\ Call([Top EXCEPT !.pc = "end"],
                  Frame("qsd", "start",
                        SubSeq(demux_qubits, 1, Len(demux_qubits) - 1),
                        Top.dim, Top.depth + 1))
    /\ UNCHANGED <<status, error, a2_qsd_blocks, kernel_calls>>
    /\ UNCHANGED a2_vars
    /\ Untouched

\* Lines 304-311: the multiplexed RZ, then the right gate.
Demux_Ucrz ==
    /\ Running("demux", "ucrz")
    /\ LET demux_qubits == Top.qubit_indices
       IN /\ circuit_log' = Append(circuit_log,
                UCRZ(Top.dim, SubSeq(demux_qubits, 1, Len(demux_qubits) - 1),
                     Last(demux_qubits), "ucrz"))
          /\ Call([Top EXCEPT !.pc = "end"],
                  Frame("qsd", "start",
                        SubSeq(demux_qubits, 1, Len(demux_qubits) - 1),
                        Top.dim, Top.depth + 1))
    /\ UNCHANGED <<status, error, a2_qsd_blocks, kernel_calls>>
    /\ UNCHANGED a2_vars
    /\ Untouched

Demux_Return ==
    /\ Running("demux", "end")
    /\ Return
    /\ UNCHANGED <<circuit_log, a2_qsd_blocks, kernel_calls>>
    /\ UNCHANGED a2_vars
    /\ Untouched

\* ---- apply_a2_optimization ----
\* Lines 385-392: the gap segments circuit_blocks.
SplitGaps(log, blocks) ==
    <<Slice(log, 0, blocks[1][1])>>
    \o [i \in 1..(Len(blocks) - 1) |->
            Slice(log, blocks[i][2], blocks[i + 1][1])]
    \o <<Slice(log, Last(blocks)[2], Len(log))>>

\* Lines 387-391: the leaf segments qsd_blocks.
SplitLeaves(log, blocks) ==
    [i \in 1..Len(blocks) |-> Slice(log, blocks[i][1], blocks[i][2])]

\* Lines 215-218 and 377-392: the end of a frame; at depth 0 the A.2 pass
\* starts, and returns at once when there are fewer than two blocks.
QSD_End ==
    /\ Running("qsd", "end")
    /\ IF Top.depth # 0 \/ Len(a2_qsd_blocks) < 2
       THEN /\ Return
            /\ UNCHANGED a2_vars
       ELSE /\ qsd_blocks' = SplitLeaves(circuit_log, a2_qsd_blocks)
            /\ circuit_blocks' = SplitGaps(circuit_log, a2_qsd_blocks)
            /\ block_index' = 0
            /\ log_at_a2' = circuit_log
            /\ SetTop([Top EXCEPT !.pc = "a2_loop"])
            /\ UNCHANGED <<status, error, foreign>>
    /\ UNCHANGED <<circuit_log, a2_qsd_blocks, kernel_calls>>
    /\ Untouched

\* An entry of a leaf names a qubit that the 2-qubit sub-circuit built at
\* lines 396-397 does not have.
HasForeignQubit(leaf) ==
    \E i \in 1..Len(leaf) : \E q \in EntryQubits(leaf[i]) : q \notin 0..1

\* What update() does with such an entry is not fixed by the circuit's
\* contract: it raises, or it goes on.  Which one is a property of the
\* circuit implementation in use (build), the same in every call.
Builds == {"raise", "continue_pass", "continue_fail"}

UpdateOutcomes(leaf_1, leaf_2) ==
    IF HasForeignQubit(leaf_1) \/ HasForeignQubit(leaf_2)
    THEN {IF build = "raise" THEN "raise" ELSE "continue"}
    ELSE {"continue"}

\* A2_Pair with the two assignments of lines 418-419 exchanged.
A2_Pair_Swapped(outcome) ==
    /\ Running("qsd", "a2_loop")
    /\ block_index < Len(qsd_blocks) - 1
    /\ outcome \in UpdateOutcomes(qsd_blocks[block_index + 1],
                                  qsd_blocks[block_index + 2])
    /\ IF outcome = "raise"
       THEN /\ Raise("IndexError")
            /\ UNCHANGED <<qsd_blocks, block_index, kernel_calls, foreign>>
       ELSE /\ kernel_calls' = kernel_calls + 2
            /\ foreign' = (foreign
                           \/ HasForeignQubit(qsd_blocks[block_index + 1])
                           \/ HasForeignQubit(qsd_blocks[block_index + 2]))
            /\ IF KernelRaises(unitary, kernel_calls + 1)
                  \/ KernelRaises(unitary, kernel_calls + 2)
               THEN /\ Raise("LinAlgError")
                    /\ UNCHANGED <<qsd_blocks, block_index>>
               ELSE /\ qsd_blocks' =
                         [qsd_blocks EXCEPT
                            ![block_index + 2] =
                                TwoQubitGates(<<0, 1>>, NumCX(unitary, TRUE),
                                              "up_to_diagonal"),
                            ![block_index + 1] =
                                TwoQubitGates(<<0, 1>>, NumCX(unitary, FALSE),
                                              "prepare")]
                    /\ block_index' = block_index + 1
                    /\ UNCHANGED <<stack, status, error>>
    /\ UNCHANGED <<circuit_log, a2_qsd_blocks, circuit_blocks, log_at_a2>>
    /\ Untouched

\* Lines 394-419: one iteration of the pair loop.
A2_Pair(outcome) ==
    /\ Running("qsd", "a2_loop")
    /\ block_index < Len(qsd_blocks) - 1
    /\ outcome \in UpdateOutcomes(qsd_blocks[block_index + 1],
                                  qsd_blocks[block_index + 2])
    /\ IF outcome = "raise"
       THEN /\ Raise("IndexError")
            /\ UNCHANGED <<qsd_blocks, block_index, kernel_calls, foreign>>
       ELSE /\ kernel_calls' = kernel_calls + 2
            /\ foreign' = (foreign
                           \/ HasForeignQubit(qsd_blocks[block_index + 1])
                           \/ HasForeignQubit(qsd_blocks[block_index + 2]))
            /\ IF KernelRaises(unitary, kernel_calls + 1)
                  \/ KernelRaises(unitary, kernel_calls + 2)
               THEN /\ Raise("LinAlgError")
                    /\ UNCHANGED <<qsd_blocks, block_index>>
               ELSE /\ qsd_blocks' =
                         [qsd_blocks EXCEPT
                            ![block_index + 1] =
                                TwoQubitGates(<<0, 1>>, NumCX(unitary, TRUE),
                                              "up_to_diagonal"),
                            ![block_index + 2] =
                                TwoQubitGates(<<0, 1>>, NumCX(unitary, FALSE),
                                              "prepare")]
                    /\ block_index' = block_index + 1
                    /\ UNCHANGED <<stack, status, error>>
    /\ UNCHANGED <<circuit_log, a2_qsd_blocks, circuit_blocks, log_at_a2>>
    /\ Untouched

\* zip(qsd_blocks, circuit_blocks) after circuit_blocks.pop(0).
RECURSIVE Interleave(_, _)
Interleave(leaves, gaps) ==
    IF leaves = <<>> \/ gaps = <<>> THEN <<>>
    ELSE Head(leaves) \o Head(gaps) \o Interleave(Tail(leaves), Tail(gaps))

\* Reassemble without the reset of line 422.
Reassemble_NoReset(leaves, gaps) ==
    circuit_log \o Head(gaps) \o Interleave(leaves, Tail(gaps))

\* Lines 421-431: reset the circuit and reassemble it.
Reassemble(leaves, gaps) == Head(gaps) \o Interleave(leaves, Tail(gaps))

A2_Reassemble ==
    /\ Running("qsd", "a2_loop")
    /\ block_index >= Len(qsd_blocks) - 1
    /\ circuit_log' = Reassemble(qsd_blocks, circuit_blocks)
    /\ SetTop([Top EXCEPT !.pc = "a2_assert"])
    /\ UNCHANGED <<status, error, a2_qsd_blocks, kernel_calls>>
    /\ UNCHANGED a2_vars
    /\ Untouched

IdentityOrder(qi) == \A i \in 1..Len(qi) : qi[i] = i - 1

\* Line 433: can circuit.get_unitary() equal unitary.data?  Never when the
\* circuit has more qubits than the unitary (the shapes differ); on an
\* empty circuit of the same size the synthesized gates multiply to the
\* unitary when they sit on qubits 0..n-1 in order; a unitary that is not
\* invariant under the permutation of a reordered qubit list differs from
\* what the circuit computes; with gates present before the call the
\* product depends on those gates; after a leaf was read from a
\* sub-circuit that lacks its qubits the product depends on what update()
\* made of it.
IntegrityOutcomes ==
    IF num_qubits # unitary.n THEN {FALSE}
    ELSE IF log_at_call # <<>> THEN {TRUE, FALSE}
    ELSE IF foreign
    THEN {unitary.cls = "identity" /\ build = "continue_pass"}
    ELSE IF IdentityOrder(qubit_indices) \/ unitary.cls = "identity"
    THEN {TRUE}
    ELSE {FALSE}

A2_Assert(ok) ==
    /\ Running("qsd", "a2_assert")
    /\ ok \in IntegrityOutcomes
    /\ IF ok THEN Return ELSE Raise("AssertionError")
    /\ UNCHANGED <<circuit_log, a2_qsd_blocks, kernel_calls>>
    /\ UNCHANGED a2_vars
    /\ Untouched

\* ---- OneQubitDecomposition.apply_unitary, lines 171-195 ----
OneQubitValidation(U, qi) ==
    CASE Len(qi) # 1 -> "ValueError"
      [] U.form = "ndarray" /\ ~U.unitary -> "ValueError"
      [] U.form \in {"list", "object"} -> "AttributeError"
      [] U.n # 1 -> "ValueError"
      [] OTHER -> "none"

\* The qubit index is not validated by this method; calls are made with
\* integer indices of the circuit.
OneQubitApplyUnitary(U, arg, basis) ==
    /\ status = "idle"
    /\ \A i \in 1..Len(arg.idx) : arg.idx[i] # NonInt
    /\ callee' = "one_qubit"
    /\ log_at_call' = circuit_log
    /\ unitary' = U
    /\ qubit_indices' = arg.idx
    /\ kernel_calls' = 0
    /\ stack' = <<>>
    /\ LET v == OneQubitValidation(U, arg.idx)
       IN IF v # "none"
          THEN /\ status' = "raised"
               /\ error' = v
               /\ UNCHANGED circuit_log
          ELSE /\ status' = "returned"
               /\ error' = "none"
               /\ circuit_log' = circuit_log
                    \o OneQubitGates(basis, arg.idx[1], "one_qubit")
    /\ UNCHANGED <<num_qubits, a2_qsd_blocks, first_call, build>>
    /\ UNCHANGED a2_vars
    /\ UNCHANGED gate_vars

\* ---- the synthesis state machine ----
NoFirstCall == [set |-> FALSE, unitary |-> NoUnitary, idx |-> <<>>,
                log |-> <<>>, status |-> "idle"]

NoGate == [matrix |-> <<>>, num_qubits |-> 0, ordering |-> "MSB"]

InitSynthesis ==
    /\ circuit_log = <<>>
    /\ num_qubits \in 1..MaxCircuitQubits
    /\ unitary = NoUnitary
    /\ qubit_indices = <<>>
    /\ a2_qsd_blocks = <<>>
    /\ stack = <<>>
    /\ status = "idle"
    /\ error = "none"
    /\ kernel_calls = 0
    /\ qsd_blocks = <<>>
    /\ circuit_blocks = <<>>
    /\ block_index = 0
    /\ callee = "none"
    /\ log_at_call = <<>>
    /\ log_at_a2 = <<>>
    /\ foreign = FALSE
    /\ first_call = NoFirstCall
    /\ build \in Builds

Init ==
    /\ InitSynthesis
    /\ gate = NoGate
    /\ gate_hist = <<>>
    /\ gate_error = "none"

Step ==
    \/ QSD_OneQubit
    \/ QSD_TwoQubit
    \/ QSD_CosSin
    \/ QSD_Ucry
    \/ QSD_End
    \/ Demux_Left
    \/ Demux_Ucrz
    \/ Demux_Return
    \/ \E outcome \in {"raise", "continue"} : A2_Pair(outcome)
    \/ A2_Reassemble
    \/ \E ok \in BOOLEAN : A2_Assert(ok)

\* The caller makes a call on the circuit it holds.
CallShannon ==
    /\ status = "idle"
    /\ \E arg \in QubitArgs(num_qubits) : \E U \in Unitaries :
          ApplyUnitary(U, arg)

CallOneQubit ==
    /\ status = "idle"
    /\ \E arg \in QubitArgs(num_qubits) :
          \E U \in {V \in Unitaries : V.fault = 0} :
          \E basis \in {"zyz", "u3"} : OneQubitApplyUnitary(U, arg, basis)

Caller ==
    /\ CallEnded
    /\ \/ \E N \in 1..MaxCircuitQubits : NewCircuit(N)
       \/ KeepCircuit

Next ==
    \/ Caller
    \/ CallShannon
    \/ CallOneQubit
    \/ Step

Spec == Init /\ [][Next]_vars

\* ---- repeated synthesis (determinism) ----
\* A first call on a fresh circuit has ended: the caller keeps its result,
\* takes a fresh circuit of the same size and is about to make the same
\* call on the same ShannonDecomposition instance.  a2_qsd_blocks is left as
\* the first call left it, to be replaced at line 135.
RecordFirst ==
    /\ CallEnded
    /\ callee = "shannon"
    /\ ~first_call.set
    /\ first_call' = [set |-> TRUE, unitary |-> unitary,
                      idx |-> qubit_indices, log |-> circuit_log,
                      status |-> status]
    /\ circuit_log' = <<>>
    /\ ForgetCall
    /\ UNCHANGED <<num_qubits, a2_qsd_blocks, build>>
    /\ UNCHANGED gate_vars

CallShannonFirst ==
    /\ ~first_call.set
    /\ CallShannon

CallShannonAgain ==
    /\ status = "idle"
    /\ first_call.set
    /\ ApplyUnitary(first_call.unitary, [bare |-> FALSE, idx |-> first_call.idx])

NextRepeat ==
    \/ CallShannonFirst
    \/ RecordFirst
    \/ CallShannonAgain
    \/ Step

SpecRepeat == Init /\ [][NextRepeat]_vars

\* ---- synthesis of larger unitaries on fresh circuits ----
\* Qubit lists of length n on a circuit of N qubits: the first n qubits in
\* order, the last n in reverse order, the first n rotated by one.
DeepLists(N, n) ==
    {[i \in 1..n |-> i - 1], [i \in 1..n |-> N - i], [i \in 1..n |-> i % n]}

DeepUnitaries(N) ==
    {[n |-> n, cls |-> c, form |-> "Operator", unitary |-> TRUE, fault |-> 0] :
        n \in 1..N, c \in Classes}
    \cup {[n |-> n, cls |-> "generic", form |-> "ndarray", unitary |-> TRUE,
           fault |-> MaxFault] : n \in 1..N}

CallDeep ==
    /\ status = "idle"
    /\ \E U \in DeepUnitaries(num_qubits) :
          \E qi \in DeepLists(num_qubits, U.n) :
             ApplyUnitary(U, [bare |-> FALSE, idx |-> qi])

NewDeepCircuit ==
    /\ CallEnded
    /\ \E N \in 1..MaxDeepN : NewCircuit(N)

InitDeep ==
    /\ Init
    /\ num_qubits <= MaxDeepN

NextDeep ==
    \/ NewDeepCircuit
    \/ CallDeep
    \/ Step

SpecDeep == InitDeep /\ [][NextDeep]_vars

\* A call runs to its end: the Python call stack is not suspended.
SpecDeepFair == SpecDeep /\ WF_vars(Step)

\* ---- Gate: matrices with Gaussian-integer entries <<re, im>> ----
C0 == <<0, 0>>

C1_ == <<1, 0>>

CAdd(a, b) == <<a[1] + b[1], a[2] + b[2]>>

CMul(a, b) == <<a[1] * b[1] - a[2] * b[2], a[1] * b[2] + a[2] * b[1]>>

CConj(a) == <<a[1], 0 - a[2]>>

Side(M) == Len(M)

\* np.eye(d)
Eye(d) == [r \in 1..d |-> [c \in 1..d |-> IF r = c THEN C1_ ELSE C0]]

\* np.kron(A, B)
Kron(A, B) ==
    LET a == Side(A)
        b == Side(B)
    IN [r \in 1..(a * b) |-> [c \in 1..(a * b) |->
           CMul(A[((r - 1) \div b) + 1][((c - 1) \div b) + 1],
                B[((r - 1) % b) + 1][((c - 1) % b) + 1])]]

MatAdd(A, B) ==
    [r \in 1..Side(A) |-> [c \in 1..Side(A) |-> CAdd(A[r][c], B[r][c])]]

\* Sum over j = 1..k of A[r][j] * B[j][c].
RECURSIVE Dot(_, _, _, _, _)
Dot(A, B, r, c, k) ==
    IF k = 0 THEN C0
    ELSE CAdd(CMul(A[r][k], B[k][c]), Dot(A, B, r, c, k - 1))

\* Gate.adjoint: self.matrix.T.conj()
adjoint(M) == [r \in 1..Side(M) |-> [c \in 1..Side(M) |-> CConj(M[c][r])]]

MatMul(A, B) ==
    [r \in 1..Side(A) |-> [c \in 1..Side(A) |-> Dot(A, B, r, c, Side(A))]]

IsPowerOfTwo(d) == d >= 1 /\ Pow2(Log2(d)) = d

\* is_unitary_matrix: square, power-of-two side, M.M^H = I.
is_unitary_matrix(M) ==
    /\ IsPowerOfTwo(Side(M))
    /\ MatMul(M, adjoint(M)) = Eye(Side(M))

zero_projector == <<<<C1_, C0>>, <<C0, C0>>>>

one_projector == <<<<C0, C0>>, <<C0, C1_>>>>

\* Gate.__init__ (lines 62-67) for a matrix that passed is_unitary_matrix.
Gate(M) == [matrix |-> M, num_qubits |-> Log2(Side(M)), ordering |-> "MSB"]

PauliX == <<<<C0, C1_>>, <<C1_, C0>>>>

PauliY == <<<<C0, <<0, -1>>>>, <<<<0, 1>>, C0>>>>

PauliZ == <<<<C1_, C0>>, <<C0, <<-1, 0>>>>>>

PhaseS == <<<<C1_, C0>>, <<C0, <<0, 1>>>>>>

OneQubitMatrices == {Eye(2), PauliX, PauliY, PauliZ, PhaseS}

\* The matrices callers build gates from.
GateMatrices ==
    OneQubitMatrices
    \cup {Kron(A, B) : A \in OneQubitMatrices, B \in {Eye(2), PauliX, PhaseS}}
    \cup {MatAdd(Kron(zero_projector, Eye(2)), Kron(one_projector, A)) :
             A \in {PauliX, PauliZ, PhaseS}}

GateHist(op, k, ordering) ==
    LET h == Append(gate_hist, [op |-> op, k |-> k, ordering |-> ordering,
                                before |-> gate])
    IN IF Len(h) > 2 THEN Tail(h) ELSE h

\* The caller constructs a gate: Gate(name, matrix).
NewGate(M) ==
    /\ gate' = Gate(M)
    /\ gate_hist' = <<>>
    /\ gate_error' = "none"

\* Gate.control, lines 102-121.  The sum at line 117 needs both Kronecker
\* products to have the same shape; numpy raises ValueError otherwise.
ControlResult(g, num_control_qubits) ==
    LET left == Kron(zero_projector, Eye(Pow2(num_control_qubits)))
        right == Kron(one_projector, g.matrix)
    IN IF num_control_qubits < 1 THEN [error |-> "ValueError", gate |-> g]
       ELSE IF Side(left) # Side(right)
       THEN [error |-> "ValueError", gate |-> g]
       ELSE IF ~is_unitary_matrix(MatAdd(left, right))
       THEN [error |-> "ValueError", gate |-> g]
       ELSE [error |-> "none", gate |-> Gate(MatAdd(left, right))]

\* The caller goes on with the gate that control returned.
Control(num_control_qubits) ==
    /\ gate # NoGate
    /\ gate.num_qubits < MaxGateQubits
    /\ LET r == ControlResult(gate, num_control_qubits)
       IN /\ gate' = r.gate
          /\ gate_error' = r.error
    /\ gate_hist' = GateHist("control", num_control_qubits, "none")

\* int(bin(i)[2:].zfill(nbits)[::-1], 2)
\* BitReverse without the zfill: int(bin(i)[2:][::-1], 2).
RECURSIVE BitReverse_NoPad(_, _)
BitReverse_NoPad(i, nbits) ==
    IF i = 0 THEN 0
    ELSE (i % 2) * Pow2(Log2(i)) + BitReverse_NoPad(i \div 2, nbits)

RECURSIVE BitReverse(_, _)
BitReverse(i, nbits) ==
    IF nbits = 0 THEN 0
    ELSE (i % 2) * Pow2(nbits - 1) + BitReverse(i \div 2, nbits - 1)

Max(S) == CHOOSE x \in S : \A y \in S : y <= x

\* Lines 151-164: the loop writes matrix[i][j] to [new_i][new_j]; a cell no
\* (i, j) maps to keeps the zero of np.zeros, a cell several map to keeps
\* the last one written.
Reordered(M) ==
    LET size == Side(M)
        nbits == Log2(size)
        from == [t \in 0..(size - 1) |->
                    {i \in 0..(size - 1) : BitReverse(i, nbits) = t}]
    IN [r \in 1..size |-> [c \in 1..size |->
           IF from[r - 1] = {} \/ from[c - 1] = {} THEN C0
           ELSE M[Max(from[r - 1]) + 1][Max(from[c - 1]) + 1]]]

\* Gate.change_mapping, lines 144-167.
ChangeMapping(ordering) ==
    /\ gate # NoGate
    /\ IF ordering \notin {"MSB", "LSB"}
       THEN /\ gate_error' = "ValueError"
            /\ UNCHANGED gate
       ELSE IF ordering = gate.ordering
       THEN /\ gate_error' = "none"
            /\ UNCHANGED gate
       ELSE /\ gate_error' = "none"
            /\ gate' = [gate EXCEPT !.matrix = Reordered(gate.matrix),
                                    !.ordering = ordering]
    /\ gate_hist' = GateHist("change_mapping", 0, ordering)

SynthesisUntouched ==
    UNCHANGED <<circuit_log, num_qubits, unitary, qubit_indices,
                a2_qsd_blocks, stack, status, error, kernel_calls,
                qsd_blocks, circuit_blocks, block_index, callee, log_at_call,
                log_at_a2, foreign, first_call, build>>

NextGate ==
    \/ \E M \in GateMatrices : NewGate(M) /\ SynthesisUntouched
    \/ \E k \in 0..MaxControls : Control(k) /\ SynthesisUntouched
    \/ \E o \in {"MSB", "LSB", "big"} : ChangeMapping(o) /\ SynthesisUntouched

InitGate ==
    /\ Init
    /\ num_qubits = 1
    /\ build = "raise"

SpecGate == InitGate /\ [][NextGate]_vars

\* ======================= properties =======================
ShannonCall == callee = "shannon"

OneQubitCall == callee = "one_qubit"

\* C1: a call of ShannonDecomposition.apply_unitary or
\* OneQubitDecomposition.apply_unitary that ends in an error leaves the
\* circuit record as it was before the call.
C1_NoPartialCircuitOnError ==
    status = "raised" => circuit_log = log_at_call

\* The inputs C2 names, stated on the arguments themselves.
BadShannonInput ==
    \/ \E i \in 1..Len(qubit_indices) : qubit_indices[i] = NonInt
    \/ Len(qubit_indices) # unitary.n
    \/ (unitary.form # "Operator" /\ ~unitary.unitary)

BadOneQubitInput ==
    \/ Len(qubit_indices) # 1
    \/ unitary.n # 1

\* C2: when apply_unitary is given an input it must reject (a non-integer
\* qubit index, a wrong number of qubit indices, a matrix that is not
\* unitary; for the one-qubit decomposition a qubit list not of length 1 or
\* a matrix that is not 2x2), the call raises at once and the circuit
\* record is the one from before the call.
C2_ValidationBeforeMutation ==
    ((ShannonCall /\ BadShannonInput) \/ (OneQubitCall /\ BadOneQubitInput))
        => (status = "raised" /\ circuit_log = log_at_call
            /\ kernel_calls = 0)

C2_Witness ==
    /\ ShannonCall
    /\ BadShannonInput
    /\ status = "raised"
    /\ log_at_call # <<>>

IdentityDone ==
    /\ ShannonCall
    /\ status = "returned"
    /\ unitary.cls = "identity"
    /\ log_at_call = <<>>

\* C4 as stated: for the identity on n qubits apply_unitary on an empty
\* circuit appends no gate at all.
C4_IdentityAppendsNothing ==
    IdentityDone => circuit_log = <<>>

EntriesWhere(P(_)) == {i \in 1..Len(circuit_log) : P(circuit_log[i])}

\* C4 as amended: for the identity on n qubits only the zero-angle RY
\* rotations of the top-level CZ-basis UCRY are suppressed (no RY is
\* appended on the last qubit of the list); the record is not empty: for
\* n = 1 it is the U3 and GlobalPhase of the one-qubit base case, for
\* n >= 3 it holds the 2^(n-1) - 1 CZ gates of the top-level UCRY and the
\* UCRZ of each of the two top-level demultiplexors.
C4_IdentitySuppressesOnlyRY ==
    IdentityDone =>
        LET last == Last(qubit_indices)
            IsRY(e) == e.gate = "RY" /\ e.targets = <<last>>
            IsCZ(e) == e.gate = "CZ" /\ e.targets = <<last>>
            IsUCRZ(e) == e.gate = "UCRZ" /\ e.targets = <<last>>
        IN /\ EntriesWhere(IsRY) = {}
           /\ unitary.n = 1 =>
                [i \in 1..Len(circuit_log) |-> circuit_log[i].gate]
                    = <<"U3", "GlobalPhase">>
           /\ unitary.n >= 3 =>
                /\ Cardinality(EntriesWhere(IsCZ)) = Pow2(unitary.n - 1) - 1
                /\ Cardinality(EntriesWhere(IsUCRZ)) = 2

C4_Witness ==
    /\ IdentityDone
    /\ unitary.n >= 3

GateSet == {"RY", "RZ", "U3", "GlobalPhase", "CX", "CZ", "UCRZ"}

\* C5: after a successful apply_unitary on an empty circuit every entry of
\* the record is one of RY, RZ, U3, GlobalPhase, CX, CZ, UCRZ.
C5_GateSetClosure ==
    (ShannonCall /\ status = "returned" /\ log_at_call = <<>>)
        => \A i \in 1..Len(circuit_log) : circuit_log[i].gate \in GateSet

C5_Witness ==
    /\ ShannonCall
    /\ status = "returned"
    /\ log_at_call = <<>>
    /\ \E i \in 1..Len(circuit_log) : circuit_log[i].src = "prepare"
    /\ \E i \in 1..Len(circuit_log) : circuit_log[i].gate = "RY"
    /\ \E i \in 1..Len(circuit_log) : circuit_log[i].gate = "UCRZ"

\* C6: a second apply_unitary with the same unitary and qubit list on a
\* fresh circuit, made on the same instance after the first, ends as the
\* first did with an identical circuit record; the block list of a call
\* is empty when its recursion starts.
C6_Determinism ==
    /\ (first_call.set /\ CallEnded)
          => (circuit_log = first_call.log /\ status = first_call.status)
    /\ (status = "running" /\ kernel_calls = 0) => a2_qsd_blocks = <<>>

C6_Witness ==
    /\ first_call.set
    /\ status = "returned"
    /\ \E i \in 1..Len(circuit_log) : circuit_log[i].src = "up_to_diagonal"

LastOp == Last(gate_hist)

\* C7: for any gate and any k >= 1, control(k) returns a gate whose matrix
\* is unitary and has side 2^(k+1).
C7_ControlAnyK ==
    (gate_hist # <<>> /\ LastOp.op = "control" /\ LastOp.k >= 1)
        => /\ gate_error = "none"
           /\ Side(gate.matrix) = Pow2(LastOp.k + 1)
           /\ is_unitary_matrix(gate.matrix)

LsbThenMsb ==
    /\ Len(gate_hist) = 2
    /\ gate_hist[1].op = "change_mapping"
    /\ gate_hist[1].ordering = "LSB"
    /\ gate_hist[1].before.ordering = "MSB"
    /\ gate_hist[2].op = "change_mapping"
    /\ gate_hist[2].ordering = "MSB"

\* C8: change_mapping("LSB") followed by change_mapping("MSB") returns the
\* matrix of a gate to exactly its original entries, with ordering "MSB"
\* again; change_mapping naming the current ordering changes nothing.
C8_EndianInvolution ==
    /\ LsbThenMsb => (gate.matrix = gate_hist[1].before.matrix
                      /\ gate.ordering = "MSB")
    /\ (gate_hist # <<>> /\ LastOp.op = "change_mapping"
        /\ LastOp.ordering = LastOp.before.ordering) => gate = LastOp.before

C8_Witness ==
    /\ LsbThenMsb
    /\ gate_hist[2].before.matrix # gate.matrix
    /\ gate.num_qubits >= 2

\* The A.2 pass has reassembled the record.
A2Done ==
    /\ ShannonCall
    /\ log_at_a2 # <<>>
    /\ \/ status = "returned"
       \/ (status = "raised" /\ error = "AssertionError")
       \/ (status = "running" /\ stack # <<>> /\ Top.pc = "a2_assert")

NumBlocks == Len(a2_qsd_blocks)

BlockStart(i) == a2_qsd_blocks[i][1]

BlockEnd(i) == a2_qsd_blocks[i][2]

OldLeaf(i) == SubSeq(log_at_a2, BlockStart(i) + 1, BlockEnd(i))

QubitsOf(seg) == UNION {EntryQubits(seg[i]) : i \in 1..Len(seg)}

\* C9: for every top-level qubit list, the sub-circuit a leaf is read from
\* only receives entries whose qubits it has, and each rewritten leaf acts
\* on the same two qubits as the leaf it replaces.
C9_A2Local ==
    /\ (status = "running" /\ stack # <<>> /\ Top.pc = "a2_loop"
        /\ block_index < Len(qsd_blocks) - 1)
          => (~HasForeignQubit(qsd_blocks[block_index + 1])
              /\ ~HasForeignQubit(qsd_blocks[block_index + 2]))
    /\ A2Done => \A i \in 1..NumBlocks :
                    QubitsOf(qsd_blocks[i]) = QubitsOf(OldLeaf(i))

\* gap_i of the record as it was when the pass began, i in 0..NumBlocks.
OldGap(i) ==
    SubSeq(log_at_a2,
           (IF i = 0 THEN 0 ELSE BlockEnd(i)) + 1,
           IF i = NumBlocks THEN Len(log_at_a2) ELSE BlockStart(i + 1))

OrderedBlocks ==
    \A i \in 1..NumBlocks :
        /\ 0 <= BlockStart(i)
        /\ BlockStart(i) <= BlockEnd(i)
        /\ BlockEnd(i) <= Len(log_at_a2)
        /\ i < NumBlocks => BlockEnd(i) <= BlockStart(i + 1)

\* C10: the block ranges are increasing, disjoint and within the record,
\* gaps and leaves partition the record from before the pass, and the
\* record after the pass is that partition with each leaf replaced by its
\* rewritten leaf and every gap unchanged.
C10_FramePreservingSplice ==
    A2Done =>
        /\ OrderedBlocks
        /\ log_at_a2 = Concat([j \in 1..(2 * NumBlocks + 1) |->
                                 IF j % 2 = 1 THEN OldGap((j - 1) \div 2)
                                 ELSE OldLeaf(j \div 2)])
        /\ circuit_log = Concat([j \in 1..(2 * NumBlocks + 1) |->
                                   IF j % 2 = 1 THEN OldGap((j - 1) \div 2)
                                   ELSE qsd_blocks[j \div 2]])

C10_Witness ==
    /\ A2Done
    /\ status = "returned"
    /\ log_at_call # <<>>
    /\ circuit_log # log_at_a2
    /\ \A i \in 1..(NumBlocks - 1) : OldGap(i) # <<>>

\* The pair loop of the A.2 pass is at its head or has ended.
InA2 ==
    /\ ShannonCall
    /\ log_at_a2 # <<>>
    /\ status = "running"
    /\ stack # <<>>
    /\ Top.pc \in {"a2_loop", "a2_assert"}

AllFrom(seg, src) == \A j \in 1..Len(seg) : seg[j].src = src

\* Leaves 0..block_index-1 are final, leaf block_index is the one U_a is
\* read from next, later leaves are as the recursion left them.
C11_Chaining ==
    (InA2 \/ A2Done) =>
        /\ Len(qsd_blocks) = NumBlocks
        /\ \A i \in 1..NumBlocks :
              CASE i <= block_index ->
                     qsd_blocks[i] # <<>> /\ AllFrom(qsd_blocks[i], "up_to_diagonal")
                [] i = block_index + 1 /\ block_index > 0 ->
                     qsd_blocks[i] # <<>> /\ AllFrom(qsd_blocks[i], "prepare")
                [] OTHER -> qsd_blocks[i] = OldLeaf(i)
        /\ A2Done => block_index = NumBlocks - 1

\* A step of the pair loop changes leaves block_index and block_index + 1
\* only, and the counter moves up by one or stays.
C11_LeftToRight ==
    (InA2 /\ Len(qsd_blocks') = Len(qsd_blocks)) =>
        /\ block_index' \in {block_index, block_index + 1}
        /\ \A i \in 1..Len(qsd_blocks) :
              (i <= block_index \/ i > block_index + 2)
                  => qsd_blocks'[i] = qsd_blocks[i]

\* C11: the A.2 pairs are processed left to right with chaining: pair i
\* reads leaf i as it is now (for i > 0 the prepare_unitary output of pair
\* i-1), replaces leaf i by the up-to-diagonal circuit and leaf i+1 by the
\* prepare_unitary circuit; when the pass has ended every leaf but the
\* last is an up-to-diagonal output and the last one a prepare_unitary
\* output; a leaf left of the current pair is never modified again.
C11_PairsLeftToRight == [](C11_Chaining) /\ [][C11_LeftToRight]_vars

C11_Witness ==
    /\ A2Done
    /\ status = "returned"
    /\ NumBlocks >= 16
    /\ AllFrom(qsd_blocks[NumBlocks], "prepare")
    /\ AllFrom(qsd_blocks[1], "up_to_diagonal")

\* Positions of the record written by the two-qubit base case in this call.
TwoQubitPositions ==
    {p \in (Len(log_at_call) + 1)..Len(circuit_log) :
        circuit_log[p].src = "two_qubit"}

\* The range [start, end) holds exactly one two-qubit synthesis.
OneSynthesis(start, end) ==
    /\ 0 <= start
    /\ start < end
    /\ end <= Len(circuit_log)
    /\ \A p \in (start + 1)..end : circuit_log[p].src = "two_qubit"
    /\ \A p \in (start + 1)..end :
          circuit_log[p].gate = "GlobalPhase" <=> p = end

Pow4(k) == Pow2(2 * k)

\* C12: a 4x4 base case pushes its range [start, end) exactly when it runs
\* at depth > 0, start and end being the record lengths before and after
\* its synthesis; for n = 2 (and n = 1) no block is collected and the A.2
\* pass does nothing; for n >= 3 the pass starts with exactly 4^(n-2)
\* blocks, a call that returns has collected 4^(n-2) blocks and rewritten
\* 4^(n-2) - 1 adjacent pairs.
C12_LeafBlocks ==
    (ShannonCall /\ status # "idle") =>
        /\ unitary.n <= 2 => (a2_qsd_blocks = <<>> /\ log_at_a2 = <<>>)
        /\ (log_at_a2 = <<>> /\ unitary.n >= 3) =>
              /\ \A i \in 1..NumBlocks :
                    OneSynthesis(BlockStart(i), BlockEnd(i))
              /\ \A i \in 1..(NumBlocks - 1) : BlockEnd(i) <= BlockStart(i + 1)
              /\ TwoQubitPositions
                    = UNION {(BlockStart(i) + 1)..BlockEnd(i) : i \in 1..NumBlocks}
        /\ (InA2 \/ A2Done) =>
              (unitary.n >= 3 /\ NumBlocks = Pow4(unitary.n - 2))
        /\ (status = "returned" /\ unitary.n >= 3) =>
              /\ A2Done
              /\ NumBlocks = Pow4(unitary.n - 2)
              /\ block_index = Pow4(unitary.n - 2) - 1
              /\ \A i \in 1..NumBlocks : qsd_blocks[i] # OldLeaf(i)

C12_Witness ==
    /\ ShannonCall
    /\ status = "returned"
    /\ unitary.n = 4
    /\ NumBlocks = 16
    /\ block_index = 15

\* get_ucry_cz has just returned to a frame of dim > 4.
UcryActed ==
    /\ ShannonCall
    /\ status = "running"
    /\ Len(stack) >= 2
    /\ Top.fn = "demux"
    /\ Top.pc = "start"
    /\ stack[Len(stack) - 1].pc = "end"

\* The entries at the end of the record that get_ucry_cz appended.
RECURSIVE UcryTail(_)
UcryTail(log) ==
    IF log = <<>> \/ Last(log).src # "ucry" THEN <<>>
    ELSE Append(UcryTail(SubSeq(log, 1, Len(log) - 1)), Last(log))

UcryEntanglers ==
    LET IsCZ(e) == e.gate = "CZ"
    IN SelectSeq(UcryTail(circuit_log), IsCZ)

Bit(m, p) == (m \div Pow2(p)) % 2

\* Position of the least-significant zero bit of m.
LeastZeroBit(m) ==
    CHOOSE p \in 0..m : Bit(m, p) = 0 /\ \A q \in 0..(p - 1) : Bit(m, q) = 1

\* Position of the least-significant one bit of m >= 1.
LeastOneBit(m) ==
    CHOOSE p \in 0..m : Bit(m, p) = 1 /\ \A q \in 0..(p - 1) : Bit(m, q) = 0

UcryControls == SubSeq(Top.qubit_indices, 1, Len(Top.qubit_indices) - 1)

\* C13 as stated: in the CZ-basis UCRY with k controls the CZ after
\* rotation i, 0 <= i < 2^k - 1, has the target qubit as target and
\* controls[c(i)] as control, c(i) the position of the least-significant
\* zero bit of i+1; exactly 2^k - 1 CZ gates are appended.
C13_LeastSignificantZeroBit ==
    UcryActed =>
        LET k == Len(UcryControls)
        IN /\ Len(UcryEntanglers) = Pow2(k) - 1
           /\ \A i \in 0..(Pow2(k) - 2) :
                 /\ UcryEntanglers[i + 1].targets = <<Last(Top.qubit_indices)>>
                 /\ LeastZeroBit(i + 1) < k
                 /\ UcryEntanglers[i + 1].controls
                        = <<UcryControls[LeastZeroBit(i + 1) + 1]>>

\* C13 as amended: the CZ after rotation i, 0 <= i < 2^k - 1, has the
\* target qubit as target and controls[c(i)] as control, c(i) the number of
\* trailing zero bits of i+1 (the position of its least-significant one
\* bit); no CZ follows the last rotation, exactly 2^k - 1 CZ gates are
\* appended.
C13_TrailingZeroCount ==
    UcryActed =>
        LET k == Len(UcryControls)
            tail == UcryTail(circuit_log)
        IN /\ Len(UcryEntanglers) = Pow2(k) - 1
           /\ \A i \in 0..(Pow2(k) - 2) :
                 /\ UcryEntanglers[i + 1].targets = <<Last(Top.qubit_indices)>>
                 /\ UcryEntanglers[i + 1].controls
                        = <<UcryControls[LeastOneBit(i + 1) + 1]>>
           /\ \A j \in 1..Len(tail) :
                 tail[j].gate \in {"RY", "CZ"}
           /\ \A j \in 1..(Len(tail) - 1) :
                 tail[j].gate = "RY" => tail[j + 1].gate = "CZ"

C13_Witness ==
    /\ UcryActed
    /\ Len(UcryControls) = 3
    /\ Len(UcryEntanglers) = 7
    /\ Last(circuit_log).gate = "RY"

Token(kind, cs, t, k) ==
    [kind |-> kind, controls |-> cs, target |-> t, nangles |-> k]

\* The record read as a sequence of blocks: one token per two-qubit
\* synthesis, per UCRZ and per run of entries of one get_ucry_cz call.
TokenAt(log, p) ==
    LET e == log[p]
    IN CASE e.src = "two_qubit" /\ e.gate = "GlobalPhase" ->
                <<Token("qsd2", <<>>, -1, 0)>>
         [] e.src = "two_qubit" /\ e.gate # "GlobalPhase" -> <<>>
         [] e.src = "ucry" /\ p > 1 /\ log[p - 1].src = "ucry" -> <<>>
         [] e.src = "ucry" -> <<Token("ucry", <<>>, e.targets[1], 0)>>
         [] e.src = "ucrz" ->
                <<Token("ucrz", e.controls, e.targets[1], e.nangles)>>
         [] OTHER -> <<Token(e.src, <<>>, -1, 0)>>

RECURSIVE TokensIn(_, _, _)
TokensIn(log, a, b) ==
    IF a > b THEN <<>>
    ELSE IF a = b THEN TokenAt(log, a)
    ELSE TokensIn(log, a, (a + b) \div 2)
         \o TokensIn(log, ((a + b) \div 2) + 1, b)

Tokens(log) == TokensIn(log, 1, Len(log))

ButLast(Q) == SubSeq(Q, 1, Len(Q) - 1)

\* The order of C14 for a frame on the qubit list Q, |Q| >= 2.
RECURSIVE EmissionOrder(_)
EmissionOrder(Q) ==
    IF Len(Q) = 2 THEN <<Token("qsd2", <<>>, -1, 0)>>
    ELSE LET inner == EmissionOrder(ButLast(Q))
             ucrz == Token("ucrz", ButLast(Q), Last(Q), Pow2(Len(Q) - 1))
             demux == inner \o <<ucrz>> \o inner
         IN demux \o <<Token("ucry", <<>>, Last(Q), 0)>> \o demux

IsPrefix(s, t) == Len(s) <= Len(t) /\ s = SubSeq(t, 1, Len(s))

AppendedByCall == SubSeq(circuit_log, Len(log_at_call) + 1, Len(circuit_log))

\* The top-level frame has made all its calls and has not started A.2.
FrameEmitted ==
    /\ ShannonCall
    /\ Running("qsd", "end")
    /\ Len(stack) = 1

\* C14: a frame of dim > 4 on the qubit list Q appends, in this order,
\* QSD(W) on Q[:-1], one UCRZ, QSD(E) on Q[:-1], the CZ-basis UCRY with
\* target Q[-1], then QSD(W), one UCRZ, QSD(E) again; every UCRZ has
\* target Q[-1], controls Q[:-1] and 2^(|Q|-1) angles, and its target is
\* not among its controls.
C14_EmissionOrder ==
    (ShannonCall /\ unitary.n >= 3 /\ status # "idle" /\ log_at_a2 = <<>>
     /\ (status = "raised" => kernel_calls > 0)) =>
        /\ IsPrefix(Tokens(AppendedByCall), EmissionOrder(qubit_indices))
        /\ FrameEmitted =>
              Tokens(AppendedByCall) = EmissionOrder(qubit_indices)
        /\ \A p \in 1..Len(AppendedByCall) :
              LET e == AppendedByCall[p]
              IN e.gate = "UCRZ" =>
                   /\ e.targets[1] \notin Range(e.controls)
                   /\ e.nangles = Pow2(Len(e.controls))
                   /\ \E m \in 3..Len(qubit_indices) :
                         /\ e.controls = SubSeq(qubit_indices, 1, m - 1)
                         /\ e.targets = <<qubit_indices[m]>>

C14_Witness ==
    /\ FrameEmitted
    /\ unitary.n = 4
    /\ Len(Tokens(AppendedByCall)) = 31
    /\ \E p \in 1..Len(circuit_log) :
          circuit_log[p].gate = "UCRZ" /\ circuit_log[p].nangles = 4

\* Frame j of the stack, a call of quantum_shannon_decomposition (dim is
\* the side of its matrix) or of demultiplexor (dim is the side of its two
\* blocks).
C15_FrameOk(j) ==
    LET f == stack[j]
        n == unitary.n
    IN /\ f.fn = "qsd" => Len(f.qubit_indices) = Log2(f.dim)
       /\ f.fn = "demux" => Len(f.qubit_indices) = Log2(f.dim) + 1
       /\ j = 1 => (f.fn = "qsd" /\ f.depth = 0 /\ f.dim = Pow2(n))
       /\ (j > 1 /\ f.fn = "demux") =>
             /\ stack[j - 1].fn = "qsd"
             /\ f.qubit_indices = stack[j - 1].qubit_indices
             /\ 2 * f.dim = stack[j - 1].dim
             /\ f.depth = stack[j - 1].depth
       /\ (j > 1 /\ f.fn = "qsd") =>
             /\ stack[j - 1].fn = "demux"
             /\ Len(f.qubit_indices) = Len(stack[j - 1].qubit_indices) - 1
             /\ f.dim = stack[j - 1].dim
             /\ 2 * f.dim = stack[j - 2].dim
             /\ f.depth = stack[j - 1].depth + 1
       /\ f.dim = 2 => (n = 1 /\ j = 1 /\ f.fn = "qsd")
       /\ f.depth <= (IF n >= 2 THEN n - 2 ELSE 0)
       /\ (f.fn = "qsd" /\ f.dim = 4) => f.depth = n - 2

C15_Frames ==
    (ShannonCall /\ status = "running") =>
        /\ stack # <<>>
        /\ Len(stack) <= (IF unitary.n >= 2 THEN 2 * (unitary.n - 2) + 1 ELSE 1)
        /\ \A j \in 1..Len(stack) : C15_FrameOk(j)

\* C15: the recursion terminates for every n >= 1: every running call
\* ends; each demultiplexor call recurses on a qubit list one shorter and
\* a matrix of half the side at depth + 1, the qubit list of every frame
\* has length log2 of the side of its matrix, the one-qubit base case is
\* reached only by a top-level call with n = 1, no frame is deeper than
\* n - 2 and the two-qubit base cases run at depth n - 2 exactly.
C15_Termination ==
    /\ [](C15_Frames)
    /\ ((ShannonCall /\ status = "running") ~> CallEnded)

C15_Witness ==
    /\ ShannonCall
    /\ Running("qsd", "start")
    /\ unitary.n = 4
    /\ Top.dim = 4
    /\ Top.depth = 2
    /\ Len(stack) = 5

\* The same call made on an empty circuit returns: the arguments pass the
\* validation, no numerical kernel fails, the circuit has the qubits of
\* the unitary and the qubit list names them in order.
SucceedsOnEmpty ==
    /\ ShannonValidation(unitary, qubit_indices) = "none"
    /\ unitary.fault = 0
    /\ num_qubits = unitary.n
    /\ IdentityOrder(qubit_indices)

EmptyCircuitSucceeds ==
    (ShannonCall /\ CallEnded /\ log_at_call = <<>> /\ SucceedsOnEmpty)
        => status = "returned"

\* C16: when apply_unitary (n >= 3) is called on a circuit whose record
\* already holds gates, the call succeeds whenever the same call on an
\* empty circuit succeeds, and the gates present before the call are,
\* unchanged and in order, the prefix of the record after the call.
C16_PriorGatesRespected ==
    (ShannonCall /\ CallEnded /\ unitary.n >= 3 /\ log_at_call # <<>>
     /\ SucceedsOnEmpty) =>
        /\ status = "returned"
        /\ IsPrefix(log_at_call, circuit_log)

LeafPair == {qubit_indices[1], qubit_indices[2]}

GapEntries == UNION {Range(OldGap(i)) : i \in 0..NumBlocks}

\* C17: for n >= 3 on an empty circuit, when the A.2 pass runs every
\* two-qubit leaf acts on the first two qubits of the top-level list, and
\* every entry of a gap is an RY on a qubit outside that pair, a CZ whose
\* target is outside the pair or a UCRZ whose target is outside the pair;
\* no gap holds output of the one-qubit or two-qubit base case.
C17_GapsOffThePair ==
    (ShannonCall /\ unitary.n >= 3 /\ log_at_call = <<>> /\ log_at_a2 # <<>>)
        =>
        /\ \A i \in 1..NumBlocks :
              /\ QubitsOf(OldLeaf(i)) = LeafPair
              /\ AllFrom(OldLeaf(i), "two_qubit")
        /\ \A e \in GapEntries :
              /\ e.gate \in {"RY", "CZ", "UCRZ"}
              /\ e.src \in {"ucry", "ucrz"}
              /\ Len(e.targets) = 1
              /\ e.targets[1] \notin LeafPair
              /\ e.gate = "RY" => e.controls = <<>>

C17_Witness ==
    /\ InA2
    /\ unitary.n = 4
    /\ log_at_call = <<>>
    /\ \E e \in GapEntries : e.gate = "RY" /\ e.targets[1] = qubit_indices[3]
    /\ \E e \in GapEntries :
          e.gate = "CZ" /\ e.controls[1] \in LeafPair
    /\ \E e \in GapEntries :
          e.gate = "UCRZ" /\ Range(e.controls) = LeafPair

====
